---- MODULE Spec2Model ----
(***************************************************************************)
(* Model of notebooks/web_feature_services.ipynb: the function             *)
(* get_wfs_feature (capabilities, layer selection, GetFeature) and the     *)
(* rest of its notebook cell (gpd.read_file, the x/y flip of every         *)
(* geometry).  A Python value that may be None is a sequence of length 0   *)
(* (None) or 1 (the value); a missing layer name is the empty string.      *)
(***************************************************************************)
EXTENDS Integers, Sequences, FiniteSets

VARIABLES
    pc,                 \* position in the notebook cell
    base_resource_url,  \* global: the endpoint URL of the current run
    wfs,                \* local of get_wfs_feature: the WebFeatureService object
    wfs_contents,       \* local: wfs.contents
    wfs_layer,          \* local: list(wfs_contents)[0]
    fn_feature,         \* local "feature" of get_wfs_feature
    feature,            \* global "feature": what the call returned
    gdf,                \* global: the GeoDataFrame
    flips,              \* how often the x/y flip was applied to gdf since it was loaded
    sent,               \* requests issued to the server during the current run
    received,           \* responses of the server during the current run
    error               \* the exception that ended the current run, "none" if none

vars == <<pc, base_resource_url, wfs, wfs_contents, wfs_layer, fn_feature,
          feature, gdf, flips, sent, received, error>>

-----------------------------------------------------------------------------
(* Bounds *)

MaxLayers == 2
MaxFeatures == 2
MaxFlips == 2

-----------------------------------------------------------------------------
(* Endpoint URLs: the query parameters a URL embeds ("" = absent). *)

NoParam == ""

TemperatureLayer == "cpc_6_10_day_outlk:CPC_6-10_Day_Temperature_Outlook"
PrecipitationLayer == "cpc_6_10_day_outlk:CPC_6-10_Day_Precipitation_Outlook"
LayerNames == {TemperatureLayer, PrecipitationLayer}

NoaaUrl ==
    [version |-> "1.0.0", request |-> "GetFeature",
     typename |-> TemperatureLayer, outputFormat |-> NoParam]

ExampleUrl ==
    [version |-> "1.1.0", request |-> "GetFeature",
     typename |-> "layer_name", outputFormat |-> "geojson"]

BareUrl ==
    [version |-> NoParam, request |-> NoParam,
     typename |-> NoParam, outputFormat |-> NoParam]

Urls == {NoaaUrl, ExampleUrl, BareUrl}

-----------------------------------------------------------------------------
(* GeoJSON feature collections *)

Positions == {<<-88, 40>>, <<-87, 41>>}

GeoJsonPoints == {[type |-> "Point", coordinates |-> p] : p \in Positions}

GeoJsonPolygons ==
    {[type |-> "Polygon", coordinates |-> <<<<a, b, c, a>>>>] :
        a \in Positions, b \in Positions, c \in Positions}

GeoJsonGeometries == GeoJsonPoints \cup GeoJsonPolygons

Properties == {[cat |-> "Above", prob |-> 33], [cat |-> "Below", prob |-> 40]}

GeoJsonFeatures ==
    {[properties |-> a, geometry |-> g] : a \in Properties, g \in GeoJsonGeometries}

SeqsUpTo(S, n) == UNION {[1..k -> S] : k \in 0..n}

FeatureCollections == SeqsUpTo(GeoJsonFeatures, MaxFeatures)

-----------------------------------------------------------------------------
(* The server: what it may answer to the two requests of a run. *)

AdvertisedLists == SeqsUpTo(LayerNames, MaxLayers)

CapabilitiesFailures == {"ConnectionError", "HTTPError"}
GetFeatureFailures == {"ConnectionError", "HTTPError", "ServiceException"}

CapabilitiesResponses ==
    {[ok |-> FALSE, error |-> e, layers |-> <<>>] : e \in CapabilitiesFailures}
    \cup {[ok |-> TRUE, error |-> "none", layers |-> l] : l \in AdvertisedLists}

AboveFeature ==
    [properties |-> [cat |-> "Above", prob |-> 33],
     geometry |-> [type |-> "Polygon",
                   coordinates |-> <<<<(<<-88, 40>>), (<<-87, 41>>),
                                       (<<-87, 41>>), (<<-88, 40>>)>>>>]]

BelowFeature ==
    [properties |-> [cat |-> "Below", prob |-> 40],
     geometry |-> [type |-> "Point", coordinates |-> <<-87, 41>>]]

\* The collection the server holds for a feature type.
LayerData(layer) ==
    IF layer = TemperatureLayer THEN <<AboveFeature, BelowFeature>>
    ELSE IF layer = PrecipitationLayer THEN <<BelowFeature>>
    ELSE <<>>

GetFeatureResponses(req) ==
    {[ok |-> FALSE, error |-> e, body |-> <<>>] : e \in GetFeatureFailures}
    \cup {[ok |-> TRUE, error |-> "none", body |-> LayerData(req.typename[1])]}

-----------------------------------------------------------------------------
(* get_wfs_feature *)

\* WebFeatureService(base_resource_url, version="2.0.0"): the object made.
WebFeatureService(url, capabilities) ==
    [url |-> url, version |-> "2.0.0", capabilities |-> capabilities]

\* Variant: the version the URL embeds wins over the keyword argument.
CapabilitiesRequestUrlVersion(url) ==
    [request |-> "GetCapabilities", url |-> url,
     version |-> IF url.version # NoParam THEN url.version ELSE "2.0.0",
     typename |-> <<>>, outputFormat |-> NoParam]

\* The capabilities request the construction of the object issues.
CapabilitiesRequest(url) ==
    [request |-> "GetCapabilities", url |-> url, version |-> "2.0.0",
     typename |-> <<>>, outputFormat |-> NoParam]

RECURSIVE DictKeys(_)
\* wfs.contents is a dict keyed by feature type name: a name advertised
\* twice is one key, at the place of its first occurrence.
DictKeys(names) ==
    IF names = <<>> THEN <<>>
    ELSE LET front == DictKeys(SubSeq(names, 1, Len(names) - 1))
             last == names[Len(names)]
         IN IF \E i \in 1..Len(front) : front[i] = last
            THEN front ELSE Append(front, last)

\* Variant: the last advertised feature type, list(wfs_contents)[-1].
LastLayer(contents) == contents[Len(contents)]

\* list(wfs_contents)[0], for a non-empty list.
FirstLayer(contents) == contents[1]

\* Variant: the output format is left to the URL, none declared if it has none.
GetFeatureRequestUrlFormat(w, layer) ==
    [request |-> "GetFeature", url |-> w.url, version |-> w.version,
     typename |-> <<layer>>, outputFormat |-> w.url.outputFormat]

\* wfs.getfeature(typename=[wfs_layer], outputFormat="GeoJson")
GetFeatureRequest(w, layer) ==
    [request |-> "GetFeature", url |-> w.url, version |-> w.version,
     typename |-> <<layer>>, outputFormat |-> "GeoJson"]

\* Where control goes after the capabilities response: an exception of the
\* constructor leaves the function and the cell.
AfterCapabilities(r) == IF r.ok THEN "select" ELSE "failed"

\* Variant: a failed GetFeature is tried again.
AfterGetFeatureRetry(r) == IF r.ok THEN "return" ELSE "selected"

\* Variant: a failed GetFeature is swallowed and the function returns.
AfterGetFeatureIgnoreError(r) == "return"

\* Where control goes after the GetFeature response.
AfterGetFeature(r) == IF r.ok THEN "return" ELSE "failed"

\* Variant: a collection fetched by an earlier run is returned again.
ReturnValueCached(local) == IF feature # <<>> THEN feature ELSE local

\* return feature
ReturnValue(local) == local

-----------------------------------------------------------------------------
(* gpd.read_file and the flip *)

\* The shapely geometry of a GeoJSON geometry: its type and its coordinate
\* pairs in order (a polygon's exterior ring).
Shape(g) ==
    IF g.type = "Point"
    THEN [geom_type |-> "Point", coords |-> <<g.coordinates>>]
    ELSE [geom_type |-> "Polygon", coords |-> g.coordinates[1]]

\* Variant: the loader loses the last feature.
ReadFileDropsLast(collection) ==
    [i \in 1..(Len(collection) - 1) |->
        [cat |-> collection[i].properties.cat,
         prob |-> collection[i].properties.prob,
         geometry |-> Shape(collection[i].geometry)]]

\* gpd.read_file(feature): one row per feature, in order, a column per
\* attribute and the geometry column.
ReadFile(collection) ==
    [i \in 1..Len(collection) |->
        [cat |-> collection[i].properties.cat,
         prob |-> collection[i].properties.prob,
         geometry |-> Shape(collection[i].geometry)]]

\* Variant: the flip overwrites x before it reads it.
FlipXYLosesX(x, y) == <<y, y>>

\* Variant: no flip.
FlipXYIdentity(x, y) == <<x, y>>

\* lambda x, y: (y, x)
FlipXY(x, y) == <<y, x>>

\* shapely.ops.transform(lambda x, y: (y, x), geom): the function on every
\* coordinate pair of the geometry.
Transform(geom) ==
    [geom EXCEPT !.coords = [i \in 1..Len(@) |-> FlipXY(@[i][1], @[i][2])]]

\* gdf["geometry"] = gdf["geometry"].map(lambda polygon: transform(flip, polygon))
FlipGeometryColumn(table) ==
    [i \in 1..Len(table) |->
        [table[i] EXCEPT !.geometry = Transform(@)]]

-----------------------------------------------------------------------------
(* Actions *)

None == <<>>
Some(v) == <<v>>

Init ==
    /\ pc = "idle"
    /\ base_resource_url = None
    /\ wfs = None
    /\ wfs_contents = None
    /\ wfs_layer = ""
    /\ fn_feature = None
    /\ feature = None
    /\ gdf = None
    /\ flips = 0
    /\ sent = <<>>
    /\ received = <<>>
    /\ error = "none"

\* base_resource_url = ...; feature = get_wfs_feature(base_resource_url):
\* the cell is run, the call gets a fresh frame.
RunCell(u) ==
    /\ pc \in {"idle", "done", "failed"}
    /\ pc' = "call"
    /\ base_resource_url' = Some(u)
    /\ wfs' = None
    /\ wfs_contents' = None
    /\ wfs_layer' = ""
    /\ fn_feature' = None
    /\ sent' = <<>>
    /\ received' = <<>>
    /\ error' = "none"
    /\ UNCHANGED <<feature, gdf, flips>>

\* WebFeatureService(...) sends its capabilities request.
IssueCapabilities ==
    /\ pc = "call"
    /\ sent' = Append(sent, CapabilitiesRequest(base_resource_url[1]))
    /\ pc' = "caps"
    /\ UNCHANGED <<base_resource_url, wfs, wfs_contents, wfs_layer, fn_feature,
                   feature, gdf, flips, received, error>>

\* The server answers; wfs is bound when the constructor returns.
CapabilitiesResponse(r) ==
    /\ pc = "caps"
    /\ received' = Append(received, r)
    /\ pc' = AfterCapabilities(r)
    /\ IF r.ok
       THEN wfs' = Some(WebFeatureService(base_resource_url[1], r.layers))
            /\ error' = error
       ELSE wfs' = wfs /\ error' = r.error
    /\ UNCHANGED <<base_resource_url, wfs_contents, wfs_layer, fn_feature,
                   feature, gdf, flips, sent>>

\* wfs_contents = wfs.contents; wfs_layer = list(wfs_contents)[0]
SelectLayer ==
    /\ pc = "select"
    /\ LET contents == DictKeys(wfs[1].capabilities)
       IN /\ wfs_contents' = Some(contents)
          /\ IF contents = <<>>
             THEN /\ error' = "IndexError"
                  /\ pc' = "failed"
                  /\ wfs_layer' = wfs_layer
             ELSE /\ wfs_layer' = FirstLayer(contents)
                  /\ pc' = "selected"
                  /\ error' = error
    /\ UNCHANGED <<base_resource_url, wfs, fn_feature, feature, gdf, flips,
                   sent, received>>

\* wfs.getfeature(...) sends its request.
IssueGetFeature ==
    /\ pc = "selected"
    /\ sent' = Append(sent, GetFeatureRequest(wfs[1], wfs_layer))
    /\ pc' = "getfeature"
    /\ UNCHANGED <<base_resource_url, wfs, wfs_contents, wfs_layer, fn_feature,
                   feature, gdf, flips, received, error>>

\* The server answers; the local feature is bound when getfeature returns.
GetFeatureResponse ==
    /\ pc = "getfeature"
    /\ \E r \in GetFeatureResponses(sent[Len(sent)]) :
          /\ received' = Append(received, r)
          /\ pc' = AfterGetFeature(r)
          /\ IF r.ok
             THEN fn_feature' = Some(r.body) /\ error' = error
             ELSE fn_feature' = fn_feature /\ error' = r.error
    /\ UNCHANGED <<base_resource_url, wfs, wfs_contents, wfs_layer,
                   feature, gdf, flips, sent>>

\* return feature, and the cell's feature = get_wfs_feature(...)
Return ==
    /\ pc = "return"
    /\ feature' = ReturnValue(fn_feature)
    /\ pc' = "fetched"
    /\ UNCHANGED <<base_resource_url, wfs, wfs_contents, wfs_layer, fn_feature,
                   gdf, flips, sent, received, error>>

\* gdf = gpd.read_file(feature)
LoadTable ==
    /\ pc = "fetched"
    /\ feature # None
    /\ gdf' = Some(ReadFile(feature[1]))
    /\ flips' = 0
    /\ pc' = "loaded"
    /\ UNCHANGED <<base_resource_url, wfs, wfs_contents, wfs_layer, fn_feature,
                   feature, sent, received, error>>

\* gdf["geometry"] = gdf["geometry"].map(...)  # flip x and y
Normalize ==
    /\ pc = "loaded"
    /\ gdf' = Some(FlipGeometryColumn(gdf[1]))
    /\ flips' = flips + 1
    /\ pc' = "done"
    /\ UNCHANGED <<base_resource_url, wfs, wfs_contents, wfs_layer, fn_feature,
                   feature, sent, received, error>>

Next ==
    \/ \E u \in Urls : RunCell(u)
    \/ IssueCapabilities
    \/ \E r \in CapabilitiesResponses : CapabilitiesResponse(r)
    \/ SelectLayer
    \/ IssueGetFeature
    \/ GetFeatureResponse
    \/ Return
    \/ LoadTable
    \/ Normalize

Spec == Init /\ [][Next]_vars

\* The normalizer on every bounded collection: the cell from the point where
\* the fetch returned a collection, and the flip applied again.
InitNormalize ==
    /\ pc = "fetched"
    /\ base_resource_url = Some(NoaaUrl)
    /\ wfs = None
    /\ wfs_contents = None
    /\ wfs_layer = ""
    /\ fn_feature = None
    /\ feature \in {Some(c) : c \in FeatureCollections}
    /\ gdf = None
    /\ flips = 0
    /\ sent = <<>>
    /\ received = <<>>
    /\ error = "none"

\* The flip applied once more to the normalized table.
NormalizeAgain ==
    /\ pc = "done"
    /\ flips < MaxFlips
    /\ gdf' = Some(FlipGeometryColumn(gdf[1]))
    /\ flips' = flips + 1
    /\ UNCHANGED <<pc, base_resource_url, wfs, wfs_contents, wfs_layer,
                   fn_feature, feature, sent, received, error>>

NextNormalize == LoadTable \/ Normalize \/ NormalizeAgain

SpecNormalize == InitNormalize /\ [][NextNormalize]_vars

-----------------------------------------------------------------------------
(* Properties *)

IsGetFeature(req) == req.request = "GetFeature"
IsGetCapabilities(req) == req.request = "GetCapabilities"
Finished == pc \in {"fetched", "loaded", "done"} /\ Len(received) = 2

\* The coordinate pairs of a GeoJSON geometry, in input order.
InputPairs(g) == IF g.type = "Point" THEN <<g.coordinates>> ELSE g.coordinates[1]

\* C1: every GetFeature request of a run names exactly one feature type, the
\* first of the list the capabilities response of that run advertised; the
\* requested type is a function of that response alone, not of the typename
\* the URL embeds.
C1_FirstLayerRequested ==
    \A i \in 1..Len(sent) :
        IsGetFeature(sent[i]) =>
            /\ received[1].ok
            /\ received[1].layers # <<>>
            /\ sent[i].typename = <<received[1].layers[1]>>

\* C1 witness: two feature types advertised, the first one requested, and the
\* URL embeds the other one.
C1_Witness ==
    /\ Len(sent) = 2
    /\ IsGetFeature(sent[2])
    /\ received[1].layers = <<PrecipitationLayer, TemperatureLayer>>
    /\ sent[2].typename = <<PrecipitationLayer>>
    /\ base_resource_url[1].typename = TemperatureLayer

\* C2 (as claimed): a run whose capabilities response advertises no feature
\* type ends with a "no data available" failure, not with an index error.
C2_EmptyListIsNoData ==
    (/\ pc = "failed"
     /\ Len(received) = 1
     /\ received[1].ok
     /\ received[1].layers = <<>>) => error = "NoDataAvailable"

\* C3: every GetFeature request declares the output format "GeoJson",
\* whatever output format the URL embeds.
C3_GeoJsonDeclared ==
    \A i \in 1..Len(sent) :
        IsGetFeature(sent[i]) => sent[i].outputFormat = "GeoJson"

\* C3 witness: a GetFeature request was issued for a URL that embeds another
\* output format.
C3_Witness ==
    /\ Len(sent) = 2
    /\ IsGetFeature(sent[2])
    /\ base_resource_url[1].outputFormat = "geojson"

\* C4: after an even number of flips the table's geometries are the loaded
\* ones again, pair for pair.
C4_FlipInvolution ==
    (gdf # None /\ flips % 2 = 0) => gdf[1] = ReadFile(feature[1])

\* C4 witness: a point and a polygon, each flipped twice.
C4_Witness ==
    /\ flips = 2
    /\ Len(gdf[1]) = 2
    /\ gdf[1][1].geometry.geom_type = "Point"
    /\ gdf[1][2].geometry.geom_type = "Polygon"
    /\ gdf[1][2].geometry.coords[1] # gdf[1][2].geometry.coords[2]

\* C5: the table, loaded or normalized, has one row per input feature, row i
\* coming from feature i.
C5_RowPerFeature ==
    pc \in {"loaded", "done"} =>
        /\ Len(gdf[1]) = Len(feature[1])
        /\ \A i \in 1..Len(feature[1]) :
              /\ gdf[1][i].cat = feature[1][i].properties.cat
              /\ gdf[1][i].prob = feature[1][i].properties.prob
              /\ gdf[1][i].geometry.geom_type = feature[1][i].geometry.type

\* C5 witness: a normalized table of two different features.
C5_Witness ==
    /\ pc = "done"
    /\ Len(feature[1]) = 2
    /\ feature[1][1].properties # feature[1][2].properties
    /\ feature[1][1].geometry.type # feature[1][2].geometry.type

\* C6: after normalization every row has its feature's attribute values and
\* its feature's coordinate pairs, each (a, b) turned into (b, a), in order.
C6_PairsSwapped ==
    (pc = "done" /\ flips = 1) =>
        \A i \in 1..Len(feature[1]) :
            LET row == gdf[1][i]
                pairs == InputPairs(feature[1][i].geometry)
            IN /\ row.cat = feature[1][i].properties.cat
               /\ row.prob = feature[1][i].properties.prob
               /\ Len(row.geometry.coords) = Len(pairs)
               /\ \A k \in 1..Len(pairs) :
                     row.geometry.coords[k] = <<pairs[k][2], pairs[k][1]>>

\* C6 witness: the polygon with cat "Above", prob 33 and first pair (-88, 40)
\* gives a row with the same attributes and first pair (40, -88).
C6_Witness ==
    /\ pc = "done"
    /\ flips = 1
    /\ Len(feature[1]) = 1
    /\ feature[1][1].geometry.type = "Polygon"
    /\ feature[1][1].geometry.coordinates[1][1] = <<-88, 40>>
    /\ gdf[1][1].cat = "Above"
    /\ gdf[1][1].prob = 33
    /\ gdf[1][1].geometry.coords[1] = <<40, -88>>

\* C7: within a run neither request is issued more than once.
C7_NoRetry ==
    /\ Cardinality({i \in 1..Len(sent) : IsGetCapabilities(sent[i])}) <= 1
    /\ Cardinality({i \in 1..Len(sent) : IsGetFeature(sent[i])}) <= 1

\* C7 witness: a run that ended with a failed GetFeature, each request issued once.
C7_Witness ==
    /\ pc = "failed"
    /\ Len(sent) = 2
    /\ Len(received) = 2
    /\ ~received[2].ok

\* C8: an exception ends the run where it is raised: the call has returned
\* no collection, a failure before GetFeature means no GetFeature request
\* was issued, and no step of a failed run touches feature or gdf; the only
\* step from a failed run is the next run of the cell.
C8_FailedRunState ==
    /\ error # "none" => pc = "failed"
    /\ pc = "failed" =>
          /\ error # "none"
          /\ fn_feature = None
          /\ (~received[1].ok \/ error = "IndexError") =>
                (Len(sent) = 1 /\ IsGetCapabilities(sent[1]))

C8_FailurePropagates ==
    /\ []C8_FailedRunState
    /\ [][/\ error' # "none" => (feature' = feature /\ gdf' = gdf)
          /\ pc = "failed" => pc' = "call"]_vars

\* C8 witness: a run failed by a non-2xx capabilities response, after an
\* earlier run had fetched and normalized a collection.
C8_Witness ==
    /\ pc = "failed"
    /\ error = "HTTPError"
    /\ Len(sent) = 1
    /\ feature # None
    /\ gdf # None

\* C9: every capabilities request asks for version "2.0.0", and so does the
\* service object, whatever version the URL embeds.
C9_FixedVersion ==
    /\ \A i \in 1..Len(sent) :
          IsGetCapabilities(sent[i]) => sent[i].version = "2.0.0"
    /\ wfs # None => wfs[1].version = "2.0.0"

\* C9 witness: the capabilities request for the URL that embeds version 1.0.0.
C9_Witness ==
    /\ Len(sent) >= 1
    /\ IsGetCapabilities(sent[1])
    /\ sent[1].url.version = "1.0.0"
    /\ wfs # None

\* What a run gives for the responses of the server.
ExpectedOutcome(resps) ==
    IF ~resps[1].ok THEN [status |-> resps[1].error, value |-> None]
    ELSE IF resps[1].layers = <<>> THEN [status |-> "IndexError", value |-> None]
    ELSE IF ~resps[2].ok THEN [status |-> resps[2].error, value |-> None]
    ELSE [status |-> "ok", value |-> Some(resps[2].body)]

\* C10: the outcome of a run, the exception or the collection returned, is a
\* function of the server's responses to that run, whatever earlier runs
\* left in feature and gdf.
C10_OutcomeFromResponsesOnly ==
    /\ pc = "failed" =>
          [status |-> error, value |-> None] = ExpectedOutcome(received)
    /\ Finished =>
          [status |-> "ok", value |-> feature] = ExpectedOutcome(received)

\* C10 witness: a run returned a collection other than the one an earlier
\* run left behind in gdf.
C10_Witness ==
    /\ pc = "fetched"
    /\ Len(received) = 2
    /\ gdf # None
    /\ gdf[1] # FlipGeometryColumn(ReadFile(feature[1]))

====
